---- MODULE Spec2Model ----
(***************************************************************************)
(* A model of kesyog/crossword's plotting pipeline (plot/plot.py) and of   *)
(* the Cloud Run HTTP handler that drives it (cloud_run.py).               *)
(*                                                                         *)
(*   SpecFilter  parse_data on arbitrary tables (filter claims)            *)
(*   Spec        one run of plot.generate, statement by statement          *)
(*   SpecConc    two runs of plot.generate in two threads of one process   *)
(*   SpecHttp    update_database_and_plot, invocation after invocation     *)
(*                                                                         *)
(* Reals are kept exact: a value in minutes is a fraction [num, den].      *)
(***************************************************************************)
EXTENDS Integers, Sequences, FiniteSets, TLC

VARIABLES
    table,      \* table[p]: the rows of the CSV file run p reads
    ceiling,    \* ceiling[p]: the ceiling argument of generate
    pc,         \* pc[p]: the statement run p executes next
    df,         \* df[p]: the DataFrame parse_data returned
    ymax,       \* ymax[p]: the y-axis ceiling generate chose (a fraction or NaN)
    myfig,      \* myfig[p]: the figure `fig` of save_plot (0: none yet)
    myax,       \* myax[p]: the figure that owns the Axes `ax` the run holds
    exc,        \* exc[p]: the exception that ended the run ("" if none)
    figs,       \* pyplot: every figure ever created, as the log of what was done to it
    stack,      \* pyplot: the open figures, the current one last
    files,      \* file system: files[<<p, kind>>] is the chart written there (<<>>: no file)
    again,      \* the result of applying the filter to df[1] a second time
    hpc,        \* HTTP: the step the handler executes next
    steps,      \* HTTP: the steps this invocation started, with their outcomes
    response,   \* HTTP: what the last finished invocation answered
    cloud,      \* HTTP: Cloud Storage: rows of data.csv, version of plot.svg
    local,      \* HTTP: local file system: rows of data.csv, version of plot.svg
    invocations \* HTTP: number of invocations started

vars == <<table, ceiling, pc, df, ymax, myfig, myax, exc, figs, stack, files,
          again, hpc, steps, response, cloud, local, invocations>>

plotVars == <<table, ceiling, pc, df, ymax, myfig, myax, exc, figs, stack, files>>
httpVars == <<hpc, steps, response, cloud, local, invocations>>

(***************************************************************************)
(* Bounds of the model.                                                    *)
(***************************************************************************)
MaxFilterRows == 2      \* rows of a table in SpecFilter
MaxRows == 3            \* rows of a table in Spec
MaxInvocations == 3     \* HTTP invocations in SpecHttp
MaxNewRows == 2         \* rows one refresh can append in SpecHttp

RunIds == {1, 2}

(***************************************************************************)
(* Data.                                                                   *)
(***************************************************************************)
DAYS == <<"Mon", "Tue", "Wed", "Thu", "Fri", "Sat", "Sun">>

\* A missing CSV cell (pandas NaN / NaT).  Every real cell value is >= 0.
NaN == -1

NotNull(x) == x # NaN

\* 3600 * 24 * 7: the "solved within a week of opening" limit, in seconds.
WEEK == 3600 * 24 * 7

\* The "56D" rolling window, in seconds.
Window == 56 * 86400

Row(o, s, d, c, w) ==
    [opened |-> o, solved |-> s, secs |-> d, cheated |-> c, weekday |-> w]

Range(s) == {s[i] : i \in 1..Len(s)}

Count(s, x) == Cardinality({i \in 1..Len(s) : s[i] = x})

SeqsUpTo(S, n) == UNION {[1..k -> S] : k \in 0..n}

(***************************************************************************)
(* parse_data                                                              *)
(***************************************************************************)
Perms(n) == {f \in [1..n -> 1..n] : \A i, j \in 1..n : i # j => f[i] # f[j]}

\* Order of the index: ascending, NaT last.
IndexLeq(a, b) == \/ b = NaN
                  \/ (a # NaN /\ a <= b)

IsSortedBy(rows, f) ==
    \A i \in 1..(Len(rows) - 1) : IndexLeq(rows[f[i]].solved, rows[f[i + 1]].solved)

\* Variant: the rows left in file order.
unsorted_index(rows) == {rows}

\* df.sort_index(): the default sort is not stable, so rows with equal index
\* come out in any order.  The set of possible results.
sort_index(rows) ==
    {[i \in 1..Len(rows) |-> rows[f[i]]] :
        f \in {g \in Perms(Len(rows)) : IsSortedBy(rows, g)}}

\* Variant: a solve exactly 7 days after opening is kept.
KeepUpToAWeek(r) ==
    /\ NotNull(r.solved) /\ NotNull(r.opened) /\ r.solved - r.opened <= WEEK
    /\ r.cheated = FALSE
    /\ NotNull(r.secs)

\* The boolean mask of lines 65-69.  A comparison with NaN is False, so a
\* row with no solved_unix or no opened_unix fails the first conjunct.
Keep(r) ==
    /\ NotNull(r.solved) /\ NotNull(r.opened) /\ r.solved - r.opened < WEEK
    /\ r.cheated = FALSE
    /\ NotNull(r.secs)

BoolMask(rows) == SelectSeq(rows, Keep)

\* The DataFrames parse_data can return for a CSV.
parse_data(csv) == {BoolMask(s) : s \in sort_index(csv)}

(***************************************************************************)
(* Exact fractions, for values in minutes.  den = 0 is the float NaN.      *)
(***************************************************************************)
Frac(n, d) == [t |-> 0, num |-> n, den |-> d]

NaNFrac == Frac(0, 0)

IsNaN(x) == x.den = 0

FracEq(x, y) == /\ ~IsNaN(x) /\ ~IsNaN(y)
                /\ x.num * y.den = y.num * x.den

RECURSIVE SumSecs(_, _, _)
SumSecs(g, lo, hi) == IF lo > hi THEN 0 ELSE g[lo].secs + SumSecs(g, lo + 1, hi)

Min(S) == CHOOSE x \in S : \A y \in S : x <= y

(***************************************************************************)
(* save_plot, line 82: df[df["weekday"] == day]["solve_time_secs"]         *)
(*                         .rolling("56D").mean()                          *)
(***************************************************************************)
Group(d, day) == SelectSeq(d, LAMBDA r : r.weekday = day)

\* Variant: the window closed on the left too.
InWindowOrAtEdge(ti, tj) == tj >= ti - Window

\* The window of the row indexed ti is closed on the right only: a row
\* indexed tj <= ti is in it iff tj > ti - 56 days.
InWindow(ti, tj) == tj > ti - Window

\* The first row of the window of row i.  The window bounds are computed in
\* one pass over the time-sorted rows: the search for the start of row i's
\* window begins at the start of row (i-1)'s, and the window ends at row i
\* itself.
RECURSIVE WindowStart(_, _)
WindowStart(g, i) ==
    IF i = 1 THEN 1
    ELSE LET prev == WindowStart(g, i - 1)
             inside == {j \in prev..(i - 1) : InWindow(g[i].solved, g[j].solved)}
         IN  IF inside = {} THEN i ELSE Min(inside)

rolling_mean(g) ==
    [i \in 1..Len(g) |->
        LET s == WindowStart(g, i)
        IN  [t |-> g[i].solved, num |-> SumSecs(g, s, i), den |-> i - s + 1]]

\* line 83: rolling_avg / 60.0
ToMinutes(series) == [i \in 1..Len(series) |-> [series[i] EXCEPT !.den = @ * 60]]

WeekdaySeries(d, day) == ToMinutes(rolling_mean(Group(d, day)))

(***************************************************************************)
(* generate, lines 158-162: the y-axis ceiling                             *)
(***************************************************************************)
Secs(d) == [i \in 1..Len(d) |-> d[i].secs]

\* Variant: the lower of the two nearest ranks, no interpolation.
quantile_lower(xs) ==
    IF xs = <<>> THEN NaNFrac
    ELSE LET a == SortSeq(xs, <)
         IN  Frac(a[(99 * (Len(xs) - 1)) \div 100 + 1], 1)

\* Series.quantile(0.99), interpolation "linear": with the values sorted,
\* the value at the fractional position 0.99 * (n - 1) (0-based), taken on
\* the line between the two neighbouring values.  NaN for no value.
quantile(xs) ==
    IF xs = <<>> THEN NaNFrac
    ELSE LET a == SortSeq(xs, <)
             pos == 99 * (Len(xs) - 1)
             lo == pos \div 100 + 1
             fr == pos % 100
         IN  Frac(100 * a[lo] + (IF fr = 0 THEN 0 ELSE fr * (a[lo + 1] - a[lo])), 100)

choose_ymax(d, c) ==
    IF c = 0
    THEN LET q == quantile(Secs(d)) IN Frac(q.num, q.den * 60)
    ELSE Frac(c, 1)

(***************************************************************************)
(* matplotlib.pyplot: the figures and the current figure are state of the  *)
(* module, shared by everything that runs in the process.  A figure is     *)
(* what it shows (title, lines, violins, legend, y limit, grid) and, to    *)
(* state the claims, who acted on it and what became of it after a write:  *)
(* actors, saves, touched.                                                 *)
(***************************************************************************)
NoTitle == [kind |-> "", run |-> 0]

NewFigure(p) ==
    [creator |-> p, title |-> NoTitle, lines |-> <<>>, violins |-> {},
     legend |-> FALSE, ylim |-> NaNFrac, grid |-> FALSE,
     actors |-> {p}, saves |-> 0, touched |-> FALSE]

\* Run p draws on figure f.
Touch(f, p) == [f EXCEPT !.actors = @ \cup {p}, !.touched = @ \/ (f.saves > 0)]

SetTitle(f, p, kind) == [Touch(f, p) EXCEPT !.title = [kind |-> kind, run |-> p]]
AddLines(f, p, ls) == [Touch(f, p) EXCEPT !.lines = @ \o ls]
AddLegend(f, p) == [Touch(f, p) EXCEPT !.legend = TRUE]
RemoveLegend(f, p) == [Touch(f, p) EXCEPT !.legend = FALSE]
SetYlim(f, p, y) == [Touch(f, p) EXCEPT !.ylim = y]
SetGrid(f, p) == [Touch(f, p) EXCEPT !.grid = TRUE]
AddViolin(f, p, kind) == [Touch(f, p) EXCEPT !.violins = @ \cup {<<kind, p>>}]
Written(f, p) == [f EXCEPT !.actors = @ \cup {p}, !.saves = @ + 1]

\* plt.gcf(): the current figure; a new one is made when none is open.
Gcf(p) ==
    IF stack = <<>>
    THEN [figs |-> Append(figs, NewFigure(p)), stack |-> <<Len(figs) + 1>>,
          cur |-> Len(figs) + 1]
    ELSE [figs |-> figs, stack |-> stack, cur |-> stack[Len(stack)]]

NoFile == [fig |-> 0, chart |-> NewFigure(0)]

\* plt.savefig(path): writes the current figure as it is now.
PltSavefig(p, kind) ==
    LET g == Gcf(p)
    IN  /\ files' = [files EXCEPT ![<<p, kind>>] = [fig |-> g.cur, chart |-> g.figs[g.cur]]]
        /\ figs' = [g.figs EXCEPT ![g.cur] = Written(@, p)]
        /\ stack' = g.stack

\* plt.close(): closes the current figure; the one activated before it
\* becomes current.
PltClose(p) ==
    /\ stack' = IF stack = <<>> THEN <<>> ELSE SubSeq(stack, 1, Len(stack) - 1)
    /\ UNCHANGED figs

Goto(p, label) == pc' = [pc EXCEPT ![p] = label]

RaiseIn(p, name) ==
    /\ pc' = [pc EXCEPT ![p] = "raised"]
    /\ exc' = [exc EXCEPT ![p] = name]

(***************************************************************************)
(* Initial values shared by the specifications.                            *)
(***************************************************************************)
Kinds == {"primary", "violin", "split"}
Paths == RunIds \X Kinds

IdlePlot ==
    /\ df = [p \in RunIds |-> <<>>]
    /\ ymax = [p \in RunIds |-> NaNFrac]
    /\ myfig = [p \in RunIds |-> 0]
    /\ myax = [p \in RunIds |-> 0]
    /\ exc = [p \in RunIds |-> ""]
    /\ figs = <<>>
    /\ stack = <<>>
    /\ files = [f \in Paths |-> NoFile]
    /\ again = [done |-> FALSE, rows |-> <<>>]

IdleHttp ==
    /\ hpc = "idle"
    /\ steps = <<>>
    /\ response = ""
    /\ cloud = [csv |-> 0, plot |-> 0]
    /\ local = [csv |-> 0, plot |-> 0]
    /\ invocations = 0

(***************************************************************************)
(* generate, line 156: df = parse_data(in_file)                            *)
(***************************************************************************)
ParseData(p) ==
    /\ pc[p] = "parse"
    /\ \E d \in parse_data(table[p]) : df' = [df EXCEPT ![p] = d]
    /\ pc' = [pc EXCEPT ![p] = "ceiling"]
    /\ UNCHANGED <<table, ceiling, ymax, myfig, myax, exc, figs, stack, files,
                   again>>
    /\ UNCHANGED httpVars

\* lines 158-162
SelectCeiling(p) ==
    /\ pc[p] = "ceiling"
    /\ ymax' = [ymax EXCEPT ![p] = choose_ymax(df[p], ceiling[p])]
    /\ Goto(p, "sp_figure")
    /\ UNCHANGED <<table, ceiling, df, myfig, myax, exc, figs, stack, files, again>>
    /\ UNCHANGED httpVars

(***************************************************************************)
(* save_plot.  Threads of one process can be switched between any two      *)
(* statements, so a step is a statement, or a run of statements that act   *)
(* on the same object.                                                     *)
(***************************************************************************)
\* line 75: fig = plt.figure(...); the new figure becomes the current one
SpFigure(p) ==
    /\ pc[p] = "sp_figure"
    /\ figs' = Append(figs, NewFigure(p))
    /\ stack' = Append(stack, Len(figs) + 1)
    /\ myfig' = [myfig EXCEPT ![p] = Len(figs) + 1]
    /\ Goto(p, "sp_title")
    /\ UNCHANGED <<table, ceiling, df, ymax, myax, exc, files, again>>
    /\ UNCHANGED httpVars

\* lines 76-79: plt.title(...), on the current figure
SpTitle(p) ==
    /\ pc[p] = "sp_title"
    /\ figs' = [Gcf(p).figs EXCEPT ![Gcf(p).cur] = SetTitle(@, p, "rolling")]
    /\ stack' = Gcf(p).stack
    /\ Goto(p, "sp_lines")
    /\ UNCHANGED <<table, ceiling, df, ymax, myfig, myax, exc, files, again>>
    /\ UNCHANGED httpVars

\* Variant: days without a record are skipped.
LinesOfPresentDays(d, p) ==
    LET present == SelectSeq(DAYS, LAMBDA day : Group(d, day) # <<>>)
    IN  [k \in 1..Len(present) |->
            [label |-> present[k], data |-> WeekdaySeries(d, present[k])]]

\* lines 81-85: one line per day of DAYS, labelled with the day.  The
\* selection of a day without rows is an empty Series, its rolling mean is
\* empty, and plotting it adds a line without points under the day's label.
Lines(d, p) ==
    [k \in 1..Len(DAYS) |-> [label |-> DAYS[k], data |-> WeekdaySeries(d, DAYS[k])]]

\* lines 80-85: ax = fig.gca(), then the lines, drawn on ax
SpLines(p) ==
    /\ pc[p] = "sp_lines"
    /\ myax' = [myax EXCEPT ![p] = myfig[p]]
    /\ figs' = [figs EXCEPT ![myfig[p]] = AddLines(@, p, Lines(df[p], p))]
    /\ Goto(p, "sp_legend")
    /\ UNCHANGED <<table, ceiling, df, ymax, myfig, exc, stack, files, again>>
    /\ UNCHANGED httpVars

\* line 86: plt.legend(), on the current figure
SpLegend(p) ==
    /\ pc[p] = "sp_legend"
    /\ figs' = [Gcf(p).figs EXCEPT ![Gcf(p).cur] = AddLegend(@, p)]
    /\ stack' = Gcf(p).stack
    /\ Goto(p, "sp_axes")
    /\ UNCHANGED <<table, ceiling, df, ymax, myfig, myax, exc, files, again>>
    /\ UNCHANGED httpVars

\* lines 88-92: labels, limits and ticks of ax.  np.arange(0, ymax + 1, 5)
\* raises ValueError when ymax is NaN.
SpAxes(p) ==
    /\ pc[p] = "sp_axes"
    /\ IF IsNaN(ymax[p])
       THEN /\ RaiseIn(p, "ValueError")
            /\ UNCHANGED figs
       ELSE /\ figs' = [figs EXCEPT ![myax[p]] = SetYlim(@, p, ymax[p])]
            /\ Goto(p, "sp_grid")
            /\ UNCHANGED exc
    /\ UNCHANGED <<table, ceiling, df, ymax, myfig, myax, stack, files, again>>
    /\ UNCHANGED httpVars

\* lines 94-96: plt.xticks(...), plt.grid(...), on the current figure
SpGrid(p) ==
    /\ pc[p] = "sp_grid"
    /\ figs' = [Gcf(p).figs EXCEPT ![Gcf(p).cur] = SetGrid(@, p)]
    /\ stack' = Gcf(p).stack
    /\ Goto(p, "sp_savefig")
    /\ UNCHANGED <<table, ceiling, df, ymax, myfig, myax, exc, files, again>>
    /\ UNCHANGED httpVars

\* line 97: plt.savefig(out_path).  The figure stays open and current.
SpSavefig(p) ==
    /\ pc[p] = "sp_savefig"
    /\ PltSavefig(p, "primary")
    /\ Goto(p, "vl_draw")
    /\ UNCHANGED <<table, ceiling, df, ymax, myfig, myax, exc, again>>
    /\ UNCHANGED httpVars

(***************************************************************************)
(* save_vln_plot                                                           *)
(***************************************************************************)
\* lines 108-111: sns.violinplot(...) draws on plt.gca(), the axes of the
\* current figure; max() of no solve date raises ValueError.
VlDraw(p) ==
    /\ pc[p] = "vl_draw"
    /\ figs' = [Gcf(p).figs EXCEPT ![Gcf(p).cur] = AddViolin(@, p, "violin")]
    /\ stack' = Gcf(p).stack
    /\ myax' = [myax EXCEPT ![p] = Gcf(p).cur]
    /\ IF df[p] = <<>>
       THEN RaiseIn(p, "ValueError")
       ELSE Goto(p, "vl_axes") /\ UNCHANGED exc
    /\ UNCHANGED <<table, ceiling, df, ymax, myfig, files, again>>
    /\ UNCHANGED httpVars

\* lines 112-116 and 140-144: ax.set_title(...), ax.set_ylim(0, ymax + 5)
ViolinAxes(f, p, kind) ==
    SetYlim(SetTitle(f, p, kind), p, Frac(ymax[p].num + 5 * ymax[p].den, ymax[p].den))

\* lines 112-119: title, labels, limits and ticks of ax, then
\* ax.get_legend().remove(), an AttributeError when ax has no legend
VlAxes(p) ==
    /\ pc[p] = "vl_axes"
    /\ IF figs[myax[p]].legend
       THEN /\ figs' = [figs EXCEPT ![myax[p]] = RemoveLegend(ViolinAxes(@, p, "violin"), p)]
            /\ Goto(p, "vl_savefig")
            /\ UNCHANGED exc
       ELSE /\ figs' = [figs EXCEPT ![myax[p]] = ViolinAxes(@, p, "violin")]
            /\ RaiseIn(p, "AttributeError")
    /\ UNCHANGED <<table, ceiling, df, ymax, myfig, myax, stack, files, again>>
    /\ UNCHANGED httpVars

\* line 120: plt.savefig(out_path)
VlSavefig(p) ==
    /\ pc[p] = "vl_savefig"
    /\ PltSavefig(p, "violin")
    /\ Goto(p, "vl_close")
    /\ UNCHANGED <<table, ceiling, df, ymax, myfig, myax, exc, again>>
    /\ UNCHANGED httpVars

\* line 121: plt.close()
VlClose(p) ==
    /\ pc[p] = "vl_close"
    /\ PltClose(p)
    /\ Goto(p, "sv_draw")
    /\ UNCHANGED <<table, ceiling, df, ymax, myfig, myax, exc, files, again>>
    /\ UNCHANGED httpVars

(***************************************************************************)
(* save_split_vln_plot                                                     *)
(***************************************************************************)
\* lines 133-139: sns.violinplot(..., split=True) on plt.gca()
SvDraw(p) ==
    /\ pc[p] = "sv_draw"
    /\ figs' = [Gcf(p).figs EXCEPT ![Gcf(p).cur] = AddViolin(@, p, "split")]
    /\ stack' = Gcf(p).stack
    /\ myax' = [myax EXCEPT ![p] = Gcf(p).cur]
    /\ IF df[p] = <<>>
       THEN RaiseIn(p, "ValueError")
       ELSE Goto(p, "sv_axes") /\ UNCHANGED exc
    /\ UNCHANGED <<table, ceiling, df, ymax, myfig, files, again>>
    /\ UNCHANGED httpVars

\* lines 140-149: title, labels, limits, ticks and legend of ax
SvAxes(p) ==
    /\ pc[p] = "sv_axes"
    /\ figs' = [figs EXCEPT ![myax[p]] = AddLegend(ViolinAxes(@, p, "split"), p)]
    /\ Goto(p, "sv_savefig")
    /\ UNCHANGED <<table, ceiling, df, ymax, myfig, myax, exc, stack, files, again>>
    /\ UNCHANGED httpVars

\* line 151: plt.savefig(out_path)
SvSavefig(p) ==
    /\ pc[p] = "sv_savefig"
    /\ PltSavefig(p, "split")
    /\ Goto(p, "sv_close")
    /\ UNCHANGED <<table, ceiling, df, ymax, myfig, myax, exc, again>>
    /\ UNCHANGED httpVars

\* line 152: plt.close(); generate returns
SvClose(p) ==
    /\ pc[p] = "sv_close"
    /\ PltClose(p)
    /\ Goto(p, "done")
    /\ UNCHANGED <<table, ceiling, df, ymax, myfig, myax, exc, files, again>>
    /\ UNCHANGED httpVars

\* One statement of generate, run by p.
Generate(p) ==
    \/ ParseData(p)
    \/ SelectCeiling(p)
    \/ SpFigure(p)
    \/ SpTitle(p)
    \/ SpLines(p)
    \/ SpLegend(p)
    \/ SpAxes(p)
    \/ SpGrid(p)
    \/ SpSavefig(p)
    \/ VlDraw(p)
    \/ VlAxes(p)
    \/ VlSavefig(p)
    \/ VlClose(p)
    \/ SvDraw(p)
    \/ SvAxes(p)
    \/ SvSavefig(p)
    \/ SvClose(p)

Finished(p) == pc[p] \in {"done", "raised"}

(***************************************************************************)
(* Spec: one run of generate (the command line: main() passes the          *)
(* --ceiling argument, 0 by default) on every table of at most MaxRows     *)
(* rows.                                                                   *)
(***************************************************************************)
SolvedAt == {700000, 700060, 700000 + Window}

\* Monday solves at each of the times with either duration, one Tuesday
\* solve, one cheated solve and one puzzle never solved.
PlotRows ==
    {Row(s - 3600, s, d, FALSE, "Mon") : s \in SolvedAt, d \in {600, 1200}}
    \cup {Row(696460, 700060, 1200, FALSE, "Tue"),
          Row(696400, 700000, 600, TRUE, "Mon"),
          Row(696400, NaN, NaN, FALSE, "Mon")}

Ceilings == {0, 30}

Init ==
    /\ \E t \in SeqsUpTo(PlotRows, MaxRows) :
          table = [p \in RunIds |-> IF p = 1 THEN t ELSE <<>>]
    /\ \E c \in Ceilings :
          ceiling = [p \in RunIds |-> IF p = 1 THEN c ELSE 0]
    /\ pc = [p \in RunIds |-> IF p = 1 THEN "parse" ELSE "idle"]
    /\ IdlePlot
    /\ IdleHttp

Next == Generate(1)

Spec == Init /\ [][Next]_vars

(***************************************************************************)
(* SpecConc: two requests served by two threads of one process, each       *)
(* running generate on its own input file and its own output path.         *)
(***************************************************************************)
ConcTable(p) ==
    IF p = 1 THEN <<Row(696400, 700000, 600, FALSE, "Mon")>>
    ELSE <<Row(696460, 700060, 1200, FALSE, "Tue")>>

ConcCeiling(p) == IF p = 1 THEN 0 ELSE 30

InitConc ==
    /\ table = [p \in RunIds |-> ConcTable(p)]
    /\ ceiling = [p \in RunIds |-> ConcCeiling(p)]
    /\ pc = [p \in RunIds |-> "parse"]
    /\ IdlePlot
    /\ IdleHttp

NextConc == \E p \in RunIds : Generate(p)

SpecConc == InitConc /\ [][NextConc]_vars

(***************************************************************************)
(* SpecFilter: parse_data on every table of at most MaxFilterRows rows,    *)
(* and the filter applied once more to what parse_data returned.           *)
(***************************************************************************)
FilterRows ==
    {Row(o, s, d, c, "Mon") :
        o \in {NaN, 0, 120}, s \in {NaN, WEEK, WEEK + 60},
        d \in {NaN, 600}, c \in BOOLEAN}

Refilter ==
    /\ pc[1] = "ceiling"
    /\ ~again.done
    /\ again' = [done |-> TRUE, rows |-> BoolMask(df[1])]
    /\ UNCHANGED plotVars
    /\ UNCHANGED httpVars

InitFilter ==
    /\ \E t \in SeqsUpTo(FilterRows, MaxFilterRows) :
          table = [p \in RunIds |-> IF p = 1 THEN t ELSE <<>>]
    /\ ceiling = [p \in RunIds |-> 0]
    /\ pc = [p \in RunIds |-> IF p = 1 THEN "parse" ELSE "idle"]
    /\ IdlePlot
    /\ IdleHttp

NextFilter == ParseData(1) \/ Refilter

SpecFilter == InitFilter /\ [][NextFilter]_vars

\* The retention predicate as the specification states it (four clauses).
Valid(r) ==
    /\ r.solved # NaN
    /\ r.cheated = FALSE
    /\ r.solved # NaN /\ r.opened # NaN /\ r.solved - r.opened < 604800
    /\ r.secs # NaN

IsAscending(rows) ==
    \A i \in 1..(Len(rows) - 1) : rows[i].solved <= rows[i + 1].solved

\* C8: filtering is idempotent: the filter applied to a dataset parse_data
\* returned gives the same rows in the same order, ascending by solved time.
C8_FilterIdempotent ==
    again.done => (again.rows = df[1] /\ IsAscending(df[1]))

\* The filter has been applied again to a dataset of two rows with distinct
\* solve times, parsed from a table that held more than it kept or held them
\* in the other order.
C8_Witness ==
    /\ again.done
    /\ Len(df[1]) = 2
    /\ df[1][1].solved < df[1][2].solved
    /\ table[1] # df[1]

(***************************************************************************)
(* cloud_run.py: update_database_and_plot.  A statement of the handler     *)
(* either completes or raises; Flask answers an unhandled exception with   *)
(* a 500 and the statements after it are not run.                          *)
(***************************************************************************)
\* lines 79-86: the calls of the handler, in program order
HandlerBody ==
    <<"download_csv", "update_csv", "upload_csv", "generate_plot", "upload_plot">>

\* line 155: def generate(in_file, out_file, ceiling), no default values
GenerateParams == <<"in_file", "out_file", "ceiling">>

\* line 61: plot.generate(LOCAL_CSV_FILENAME, LOCAL_PLOT_FILENAME)
GeneratePlotArgs == <<"data.csv", "plot.svg">>

\* A call binds when every parameter without a default gets an argument.
Binds(params, args) == Len(args) = Len(params)

Effect(failed, raised, l, c) ==
    [failed |-> failed, raised |-> raised, local |-> l, cloud |-> c]

\* lines 45-47: blob.download_to_filename raises when the download fails
download_csv(fails) ==
    Effect(fails, fails, IF fails THEN local ELSE [local EXCEPT !.csv = cloud.csv], cloud)

\* Variant: subprocess.run without check=True, a failure goes unnoticed.
update_csv_unchecked(fails, n) ==
    Effect(fails, FALSE, IF fails THEN local ELSE [local EXCEPT !.csv = @ + n], cloud)

\* lines 64-70: subprocess.run(["crossword", ...], check=True) raises
\* CalledProcessError when the tool exits non-zero; on success the tool has
\* appended the n new records it pulled
update_csv(fails, n) ==
    Effect(fails, fails, IF fails THEN local ELSE [local EXCEPT !.csv = @ + n], cloud)

\* lines 50-52
upload_csv(fails) ==
    Effect(fails, fails, local, IF fails THEN cloud ELSE [cloud EXCEPT !.csv = local.csv])

\* lines 60-61: the call of plot.generate is a TypeError unless it binds
generate_plot(fails) ==
    IF Binds(GenerateParams, GeneratePlotArgs)
    THEN Effect(fails, fails, IF fails THEN local ELSE [local EXCEPT !.plot = local.csv + 1], cloud)
    ELSE Effect(TRUE, TRUE, local, cloud)

\* lines 55-57
upload_plot(fails) ==
    Effect(fails, fails, local, IF fails THEN cloud ELSE [cloud EXCEPT !.plot = local.plot])

Run(name, fails, n) ==
    CASE name = "download_csv" -> download_csv(fails)
      [] name = "update_csv" -> update_csv(fails, n)
      [] name = "upload_csv" -> upload_csv(fails)
      [] name = "generate_plot" -> generate_plot(fails)
      [] name = "upload_plot" -> upload_plot(fails)

Position(name) == CHOOSE i \in 1..Len(HandlerBody) : HandlerBody[i] = name

\* A request arrives (line 73); lines 75-77 set up the client and the bucket.
Request ==
    /\ hpc = "idle"
    /\ invocations < MaxInvocations
    /\ invocations' = invocations + 1
    /\ hpc' = HandlerBody[1]
    /\ steps' = <<>>
    /\ response' = ""
    /\ UNCHANGED <<cloud, local>>
    /\ UNCHANGED plotVars
    /\ UNCHANGED again

\* The handler runs its next call; after the last one it returns "Success!"
\* (line 88).
HandlerStep ==
    /\ hpc # "idle"
    /\ \E fails \in BOOLEAN, n \in 0..MaxNewRows :
          LET e == Run(hpc, fails, n)
              i == Position(hpc)
          IN  /\ steps' = Append(steps, [name |-> hpc, failed |-> e.failed])
              /\ local' = e.local
              /\ cloud' = e.cloud
              /\ hpc' = IF e.raised \/ i = Len(HandlerBody) THEN "idle"
                        ELSE HandlerBody[i + 1]
              /\ response' = IF e.raised THEN "500"
                             ELSE IF i = Len(HandlerBody) THEN "Success!"
                             ELSE response
    /\ UNCHANGED invocations
    /\ UNCHANGED plotVars
    /\ UNCHANGED again

InitHttp ==
    /\ table = [p \in RunIds |-> <<>>]
    /\ ceiling = [p \in RunIds |-> 0]
    /\ pc = [p \in RunIds |-> "idle"]
    /\ IdlePlot
    /\ IdleHttp

NextHttp == Request \/ HandlerStep

SpecHttp == InitHttp /\ [][NextHttp]_vars

(***************************************************************************)
(* The claims about one run of generate (Spec).                            *)
(***************************************************************************)
\* save_plot has drawn the weekday lines of run 1.
LinesDrawn == myax[1] # 0

DrawnLines == figs[myfig[1]].lines

RowsOf(day) == SelectSeq(df[1], LAMBDA r : r.weekday = day)

RECURSIVE SumOver(_, _)
SumOver(g, S) ==
    IF S = {} THEN 0
    ELSE LET j == CHOOSE x \in S : TRUE IN g[j].secs + SumOver(g, S \ {j})

\* The point drawn for observation i of group g is the mean of the solve
\* times of the observations W, in minutes.
IsMeanOf(pt, g, i, W) ==
    /\ pt.t = g[i].solved
    /\ pt.den # 0
    /\ pt.num * Cardinality(W) * 60 = SumOver(g, W) * pt.den

\* The observations of g solved in (solved_i - 56 days, solved_i].
TrailingWindow(g, i) ==
    {j \in 1..Len(g) :
        g[j].solved > g[i].solved - 56 * 24 * 3600 /\ g[j].solved <= g[i].solved}

\* C2 as stated: the rolling value drawn for observation i of a weekday group
\* is the mean, in minutes, over all observations of the group solved in
\* (solved_i - 56 days, solved_i], observations with equal solve times
\* included.
C2_MeanOverTrailingWindow ==
    LinesDrawn =>
        \A k \in 1..Len(DAYS) :
            LET g == RowsOf(DAYS[k])
            IN  /\ Len(DrawnLines[k].data) = Len(g)
                /\ \A i \in 1..Len(g) :
                      IsMeanOf(DrawnLines[k].data[i], g, i, TrailingWindow(g, i))

\* C2, amended: the rolling value drawn for observation i of a weekday group
\* is the mean, in minutes, over the observations of the group that are at or
\* before i in the dataset's row order and solved in
\* (solved_i - 56 days, solved_i]; the value at the first observation of a
\* group is its own duration.
C2_MeanOverRowsUpToI ==
    LinesDrawn =>
        \A k \in 1..Len(DAYS) :
            LET g == RowsOf(DAYS[k])
            IN  /\ Len(DrawnLines[k].data) = Len(g)
                /\ \A i \in 1..Len(g) :
                      IsMeanOf(DrawnLines[k].data[i], g, i,
                               {j \in TrailingWindow(g, i) : j <= i})
                /\ Len(g) > 0 =>
                      FracEq(DrawnLines[k].data[1], Frac(g[1].secs, 60))

\* The lines are drawn for a weekday group with two observations solved at
\* the same time with different durations.
C2_Witness ==
    /\ LinesDrawn
    /\ \E k \in 1..Len(DAYS) :
          LET g == RowsOf(DAYS[k])
          IN  /\ Len(g) = 2
              /\ g[1].secs # g[2].secs
              /\ g[1].solved = g[2].solved

PrimaryWritten == files[<<1, "primary">>].fig # 0

PrimaryLines == files[<<1, "primary">>].chart.lines

DaysWithRecords == {k \in 1..Len(DAYS) : RowsOf(DAYS[k]) # <<>>}

YmaxChosen == pc[1] \notin {"parse", "ceiling"}

\* The k-th smallest of the values xs (k = 1 the smallest).
OrderStat(xs, k) ==
    CHOOSE v \in Range(xs) :
        /\ Cardinality({i \in 1..Len(xs) : xs[i] < v}) < k
        /\ k <= Cardinality({i \in 1..Len(xs) : xs[i] <= v})

\* y, in minutes, is the 99th percentile of the seconds xs: the value at
\* rank 1 + 0.99 (n - 1), on the line between the two nearest ranks.
IsPercentile99(y, xs) ==
    LET n == Len(xs)
        whole == (99 * (n - 1)) \div 100
        part == (99 * (n - 1)) % 100
        lo == OrderStat(xs, whole + 1)
        hi == OrderStat(xs, IF whole + 2 <= n THEN whole + 2 ELSE n)
    IN  /\ y.den # 0
        /\ y.num * 100 * 60 = (100 * lo + part * (hi - lo)) * y.den

TenSamples == [i \in 1..10 |-> Row(0, 3600, 600 * i, FALSE, DAYS[(i % 7) + 1])]

\* C4: with a positive override the ceiling is the override; with none (0) it
\* is the 99th percentile of solve_time_secs over the whole filtered dataset,
\* interpolated linearly between the nearest ranks, in minutes; for the
\* samples 10, 20, ..., 100 minutes that is 99.1, between the 9th and 10th.
C4_Ceiling ==
    /\ YmaxChosen =>
          /\ ceiling[1] > 0 => ymax[1] = Frac(ceiling[1], 1)
          /\ (ceiling[1] = 0 /\ df[1] # <<>>) =>
                IsPercentile99(ymax[1], [i \in 1..Len(df[1]) |-> df[1][i].secs])
    /\ FracEq(choose_ymax(TenSamples, 0), Frac(991, 10))
    /\ \A c \in Ceilings \ {0} : choose_ymax(TenSamples, c) = Frac(c, 1)

\* The ceiling has been computed from a dataset of two weekdays with
\* different solve times.
C4_Witness ==
    /\ YmaxChosen
    /\ ceiling[1] = 0
    /\ \E i, j \in 1..Len(df[1]) :
          df[1][i].secs < df[1][j].secs /\ df[1][i].weekday # df[1][j].weekday

FilesWritten(p) == {k \in Kinds : files[<<p, k>>].fig # 0}

\* C5: when generate has returned or raised, all three chart files have been
\* written or none has; in particular none when no record survives filtering.
C5_AllOrNothing ==
    Finished(1) =>
        /\ FilesWritten(1) \in {{}, Kinds}
        /\ df[1] = <<>> => FilesWritten(1) = {}

\* C9: a figure is written once, nothing is drawn on it after it was
\* written, and the three charts of a run come from three figures.
C9_WrittenOnceAndLast ==
    /\ \A n \in 1..Len(figs) : figs[n].saves <= 1 /\ ~figs[n].touched
    /\ \A j, k \in FilesWritten(1) :
          j # k => files[<<1, j>>].fig # files[<<1, k>>].fig

(***************************************************************************)
(* The claim about two concurrent runs (SpecConc).                         *)
(***************************************************************************)
\* C7: no drawing or save operation of one run acts on a figure created by
\* the other, and each chart a run writes shows what a run on its own shows:
\* a figure the run created, with the lines of its own dataset.
C7_RunsShareNothing ==
    /\ \A n \in 1..Len(figs) : figs[n].actors = {figs[n].creator}
    /\ \A p \in RunIds : \A k \in FilesWritten(p) :
          files[<<p, k>>].chart.creator = p

(***************************************************************************)
(* The claims about the HTTP handler (SpecHttp).                           *)
(***************************************************************************)
\* C6: the ceiling is optional, so an invocation whose fetch, refresh and CSV
\* upload succeeded runs generate to completion, and one that has finished
\* with those and the plot upload successful answered "Success!".
C6_GenerateRunsWithoutCeiling ==
    /\ \A i \in 1..Len(steps) : steps[i].name = "generate_plot" => ~steps[i].failed
    /\ (hpc = "idle" /\ Len(steps) >= 3 /\ \A i \in 1..3 : ~steps[i].failed) =>
          (response = "Success!" \/ (Len(steps) = 5 /\ steps[5].failed))

\* C10: in every invocation the steps run in the order fetch, refresh, upload
\* CSV, generate plot, upload plot; a step starts only after every earlier
\* one succeeded; "Success!" is answered only after the plot upload.
C10_StepsInOrder ==
    /\ Len(steps) <= Len(HandlerBody)
    /\ \A i \in 1..Len(steps) : steps[i].name = HandlerBody[i]
    /\ \A i \in 1..(Len(steps) - 1) : ~steps[i].failed
    /\ response = "Success!" =>
          /\ Len(steps) = Len(HandlerBody)
          /\ ~steps[Len(steps)].failed

\* An invocation ended at a failed refresh, after an earlier invocation had
\* refreshed and uploaded the CSV: nothing ran after the refresh.
C10_Witness ==
    /\ hpc = "idle"
    /\ invocations >= 2
    /\ cloud.csv > 0
    /\ Len(steps) = 2 /\ steps[2].name = "update_csv" /\ steps[2].failed
    /\ response = "500"

====
